---- MODULE Spec2Model ----
(***************************************************************************)
(* Neuron model descriptors (neuro_models/HH.py, neuro_models/HH_RTM_M.py) *)
(* and the stand-alone Erisir simulation (standalone/HH_erisir.py).        *)
(*                                                                         *)
(* Python floats are modelled as decimal floating-point numbers <<m, e>>   *)
(* (value m * 10^e) with a mantissa of Digits decimal digits, so that the  *)
(* arithmetic of the source keeps its dynamic range (exp((95-Vm)/11.8) is  *)
(* about 1e6 at rest, alpha_n about 1e-4) inside TLC's 32-bit integers.    *)
(* Python objects are tagged tuples (<<"Symbol", name>>, <<"None">>,       *)
(* <<"tuple", a, b>>), mutable objects (dicts, numpy arrays) live in heaps *)
(* indexed by address so that aliasing is visible.                         *)
(***************************************************************************)
EXTENDS Integers, Sequences, FiniteSets, TLC

(***************************************************************************)
(* Decimal floating point                                                  *)
(***************************************************************************)
Digits == 4

Pow10(k) ==
    CASE k <= 0 -> 1
      [] k = 1 -> 10
      [] k = 2 -> 100
      [] k = 3 -> 1000
      [] k = 4 -> 10000
      [] k = 5 -> 100000
      [] k = 6 -> 1000000
      [] k = 7 -> 10000000
      [] k = 8 -> 100000000
      [] OTHER -> 1000000000

MantMax == Pow10(Digits)
MantMin == Pow10(Digits - 1)

Abs(x) == IF x < 0 THEN -x ELSE x
Sgn(x) == IF x < 0 THEN -1 ELSE IF x > 0 THEN 1 ELSE 0

\* Truncating division of a signed integer by a positive one.
TDiv(a, b) == Sgn(a) * (Abs(a) \div b)

\* The number of decimal digits of x >= 1.
NDigits(x) ==
    CASE x < 10 -> 1
      [] x < 100 -> 2
      [] x < 1000 -> 3
      [] x < 10000 -> 4
      [] x < 100000 -> 5
      [] x < 1000000 -> 6
      [] x < 10000000 -> 7
      [] x < 100000000 -> 8
      [] x < 1000000000 -> 9
      [] OTHER -> 10

\* The float of value m * 10^e: the mantissa cut or padded to Digits digits.
Norm(m, e) ==
    IF m = 0 THEN <<0, 0>>
    ELSE LET d == NDigits(Abs(m))
         IN  IF d > Digits
             THEN <<TDiv(m, Pow10(d - Digits)), e + (d - Digits)>>
             ELSE <<m * Pow10(Digits - d), e - (Digits - d)>>

F(m, e) == Norm(m, e)
FZero == <<0, 0>>
FOne == F(1, 0)

FNeg(a) == <<-a[1], a[2]>>

\* a + b: the operands are aligned on a common exponent; the digits of the
\* smaller operand that fall below the last kept digit are dropped.
FAlign(a, b) ==
    LET diff == a[2] - b[2]
        up == IF diff < 8 - Digits THEN diff ELSE 8 - Digits
        down == diff - up
    IN  Norm(a[1] * Pow10(up) + (IF down > Digits THEN 0 ELSE TDiv(b[1], Pow10(down))),
             a[2] - up)

FAdd(a, b) ==
    IF a[1] = 0 THEN b
    ELSE IF b[1] = 0 THEN a
    ELSE IF a[2] >= b[2] THEN FAlign(a, b) ELSE FAlign(b, a)

FSub(a, b) == FAdd(a, FNeg(b))

\* a * b: the product of the mantissas, computed in two halves to stay within
\* 32 bits, less its lowest Digits - 1 digits.
FMul(a, b) ==
    IF a[1] = 0 \/ b[1] = 0 THEN <<0, 0>>
    ELSE LET split == Pow10(Digits - 1)
             bh == TDiv(b[1], split)
             bl == b[1] - bh * split
         IN  Norm(a[1] * bh + TDiv(a[1] * bl, split), a[2] + b[2] + Digits - 1)

\* a / b for b # 0 (the rate functions' singular voltages are not inputs here):
\* long division, two groups of four digits after the integer quotient.
FDiv(a, b) ==
    IF a[1] = 0 /\ b[1] # 0 THEN <<0, 0>>
    ELSE LET n == Abs(a[1])
             d == Abs(b[1])
             q == n \div d
             r0 == n % d
             d1 == (r0 * 10000) \div d
             r1 == (r0 * 10000) % d
             d2 == (r1 * 10000) \div d
         IN  Norm(Sgn(a[1]) * Sgn(b[1]) * (q * 100000000 + d1 * 10000 + d2),
                  a[2] - b[2] - 8)

FLt(a, b) == FSub(a, b)[1] < 0
FLe(a, b) == FSub(a, b)[1] <= 0
FAbs(a) == <<Abs(a[1]), a[2]>>

\* The integer part of a (truncated), for |a| < 10^9.
FTrunc(a) ==
    IF a[2] >= 0 THEN a[1] * Pow10(a[2]) ELSE TDiv(a[1], Pow10(-a[2]))

FromInt(n) == F(n, 0)

\* x ** k for the whole-number exponents the sources use (2.0, 3.0, 4.0).
RECURSIVE FPowN(_, _)
FPowN(x, k) == IF k = 0 THEN FOne ELSE FMul(x, FPowN(x, k - 1))

\* Round to the nearest whole number (halves away from zero).
FRound(a) == FTrunc(FAdd(a, IF a[1] < 0 THEN F(-5, -1) ELSE F(5, -1)))

\* exp, table-driven as in libm: x = k*ln(10) + j/8 + s with k, j whole numbers,
\* |j| <= 9 and |s| <= 1/16; exp(x) = 10^k * exp(j/8) * exp(s), exp(j/8) from a
\* table and exp(s) by its Taylor series to the third power. ln(10) is taken in
\* two parts, Ln10hi + Ln10lo, so that k*Ln10hi is exact (Cody-Waite).
Ln10 == F(2302585, -6)
Ln10hi == F(23, -1)
Ln10lo == F(2585, -6)

ExpTable(j) ==
    CASE j = -9 -> F(3246525, -7)
      [] j = -8 -> F(3678794, -7)
      [] j = -7 -> F(4168620, -7)
      [] j = -6 -> F(4723666, -7)
      [] j = -5 -> F(5352614, -7)
      [] j = -4 -> F(6065307, -7)
      [] j = -3 -> F(6872893, -7)
      [] j = -2 -> F(7788008, -7)
      [] j = -1 -> F(8824969, -7)
      [] j = 0 -> F(10000000, -7)
      [] j = 1 -> F(11331485, -7)
      [] j = 2 -> F(12840254, -7)
      [] j = 3 -> F(14549914, -7)
      [] j = 4 -> F(16487213, -7)
      [] j = 5 -> F(18682460, -7)
      [] j = 6 -> F(21170000, -7)
      [] j = 7 -> F(23988753, -7)
      [] j = 8 -> F(27182818, -7)
      [] OTHER -> F(30802168, -7)

FExp(x) ==
    LET k == FRound(FDiv(x, Ln10))
        r == FSub(FSub(x, FMul(FromInt(k), Ln10hi)), FMul(FromInt(k), Ln10lo))
        j == FRound(FMul(r, F(8, 0)))
        s == FSub(r, FDiv(FromInt(j), F(8, 0)))
        p == FAdd(FOne, FMul(s, FAdd(FOne, FMul(FDiv(s, F(2, 0)),
                                                FAdd(FOne, FDiv(s, F(3, 0)))))))
        v == FMul(ExpTable(j), p)
    IN  <<v[1], v[2] + k>>

(***************************************************************************)
(* Python values and sympy expressions                                     *)
(***************************************************************************)
None == <<"None">>
PyTuple(a, b) == <<"tuple", a, b>>
NdArray(xs) == <<"ndarray", xs>>
IsNone(v) == v[1] = "None"
IsSymbol(v) == v[1] = "Symbol"

Symbol(n) == <<"Symbol", n>>
Float(m, e) == <<"Float", F(m, e)>>
Add(a, b) == <<"Add", a, b>>
Sub(a, b) == <<"Sub", a, b>>
Mul(a, b) == <<"Mul", a, b>>
Div(a, b) == <<"Div", a, b>>
Neg(a) == <<"Neg", a>>
Pow(a, k) == <<"Pow", a, k>>
Exp(a) == <<"Exp", a>>

\* expr.free_symbols, as the set of the symbols' names.
RECURSIVE free_symbols(_)
free_symbols(x) ==
    CASE x[1] = "Symbol" -> {x[2]}
      [] x[1] = "Float" -> {}
      [] x[1] \in {"Neg", "Exp", "Pow"} -> free_symbols(x[2])
      [] OTHER -> free_symbols(x[2]) \cup free_symbols(x[3])

\* The value of an expression once every symbol is substituted (expr.subs and
\* numeric evaluation); env maps symbol names to floats.
RECURSIVE evalf(_, _)
evalf(x, env) ==
    CASE x[1] = "Symbol" -> env[x[2]]
      [] x[1] = "Float" -> x[2]
      [] x[1] = "Neg" -> FNeg(evalf(x[2], env))
      [] x[1] = "Exp" -> FExp(evalf(x[2], env))
      [] x[1] = "Pow" -> FPowN(evalf(x[2], env), x[3])
      [] x[1] = "Add" -> FAdd(evalf(x[2], env), evalf(x[3], env))
      [] x[1] = "Sub" -> FSub(evalf(x[2], env), evalf(x[3], env))
      [] x[1] = "Mul" -> FMul(evalf(x[2], env), evalf(x[3], env))
      [] OTHER -> FDiv(evalf(x[2], env), evalf(x[3], env))

(***************************************************************************)
(* neuro_models/HH.py and neuro_models/HH_RTM_M.py: the symbols            *)
(***************************************************************************)
_g_K == Symbol("g_K")
_g_Na == Symbol("g_Na")
_g_L == Symbol("g_L")
_g_M == Symbol("g_M")
_E_K == Symbol("E_K")
_E_Na == Symbol("E_Na")
_E_L == Symbol("E_L")
_C_m == Symbol("C_m")
_I_A == Symbol("I_A")
_V_m == Symbol("V_m")
_n == Symbol("n")
_m == Symbol("m")
_h == Symbol("h")
_w == Symbol("w")

(***************************************************************************)
(* neuro_models/HH.py                                                      *)
(***************************************************************************)
\* HH_consts without the leak conductance (a constant left out of the defaults).
HH_consts_no_g_L ==
    [k \in {"g_K", "g_Na", "E_K", "E_Na", "E_L", "C_m"} |->
        CASE k = "g_K" -> F(360, -1)
          [] k = "g_Na" -> F(1200, -1)
          [] k = "E_K" -> F(-770, -1)
          [] k = "E_Na" -> F(500, -1)
          [] k = "E_L" -> F(-544, -1)
          [] OTHER -> F(10, -1)]

HH_consts ==
    [k \in {"g_K", "g_Na", "g_L", "E_K", "E_Na", "E_L", "C_m"} |->
        CASE k = "g_K" -> F(360, -1)
          [] k = "g_Na" -> F(1200, -1)
          [] k = "g_L" -> F(3, -1)
          [] k = "E_K" -> F(-770, -1)
          [] k = "E_Na" -> F(500, -1)
          [] k = "E_L" -> F(-544, -1)
          [] OTHER -> F(10, -1)]

HH_alpha_n ==
    Div(Mul(Float(-1, -2), Add(_V_m, Float(550, -1))),
        Sub(Exp(Div(Neg(Add(_V_m, Float(550, -1))), Float(10, 0))), Float(1, 0)))
HH_beta_n ==
    Mul(Float(125, -3), Exp(Div(Neg(Add(_V_m, Float(650, -1))), Float(80, 0))))
HH_alpha_m ==
    Div(Mul(Float(-1, -1), Add(_V_m, Float(400, -1))),
        Sub(Exp(Div(Neg(Add(_V_m, Float(400, -1))), Float(10, 0))), Float(1, 0)))
HH_beta_m ==
    Mul(Float(4, 0), Exp(Div(Neg(Add(_V_m, Float(65, 0))), Float(18, 0))))
HH_alpha_h ==
    Mul(Float(7, -2), Exp(Div(Neg(Add(_V_m, Float(65, 0))), Float(20, 0))))
HH_beta_h ==
    Div(Float(10, -1),
        Add(Exp(Div(Neg(Add(_V_m, Float(35, 0))), Float(10, 0))), Float(1, 0)))

HH_I_K == Mul(Mul(_g_K, Pow(_n, 4)), Sub(_V_m, _E_K))
HH_I_Na == Mul(Mul(Mul(_g_Na, Pow(_m, 3)), _h), Sub(_V_m, _E_Na))
HH_I_L == Mul(_g_L, Sub(_V_m, _E_L))

HH_dv_dt == Div(Sub(Sub(Sub(_I_A, HH_I_K), HH_I_Na), HH_I_L), _C_m)
HH_dn_dt ==
    Sub(Mul(HH_alpha_n, Sub(Float(10, -1), _n)), Mul(HH_beta_n, _n))
HH_dm_dt ==
    Sub(Mul(HH_alpha_m, Sub(Float(10, -1), _m)), Mul(HH_beta_m, _m))
HH_dh_dt ==
    Sub(Mul(HH_alpha_h, Sub(Float(10, -1), _h)), Mul(HH_beta_h, _h))

(***************************************************************************)
(* neuro_models/HH_RTM_M.py                                                *)
(***************************************************************************)
RTM_consts ==
    [k \in {"C_m", "E_Na", "E_K", "E_L", "g_Na", "g_K", "g_L", "g_M"} |->
        CASE k = "C_m" -> F(10, -1)
          [] k = "E_Na" -> F(500, -1)
          [] k = "E_K" -> F(-1000, -1)
          [] k = "E_L" -> F(-670, -1)
          [] k = "g_Na" -> F(1000, -1)
          [] k = "g_K" -> F(800, -1)
          [] k = "g_L" -> F(1, -1)
          [] OTHER -> F(4, -1)]

RTM_alpha_m ==
    Div(Mul(Float(32, -2), Add(Float(540, -1), _V_m)),
        Sub(Float(1, 0),
            Exp(Div(Mul(Float(-1, 0), Add(_V_m, Float(540, -1))), Float(40, -1)))))
RTM_beta_m ==
    Div(Mul(Float(28, -2), Add(Float(270, -1), _V_m)),
        Sub(Exp(Div(Add(_V_m, Float(270, -1)), Float(50, -1))), Float(1, 0)))
RTM_alpha_h ==
    Mul(Float(128, -3), Exp(Div(Neg(Add(_V_m, Float(500, -1))), Float(18, 0))))
RTM_beta_h ==
    Div(Float(40, -1),
        Add(Float(1, 0),
            Exp(Div(Mul(Float(-10, -1), Add(_V_m, Float(270, -1))), Float(50, -1)))))
RTM_alpha_n ==
    Div(Mul(Float(32, -3), Add(Float(520, -1), _V_m)),
        Sub(Float(1, 0),
            Exp(Div(Mul(Float(-1, 0), Add(_V_m, Float(520, -1))), Float(50, -1)))))
RTM_beta_n ==
    Mul(Float(5, -1), Exp(Div(Neg(Add(_V_m, Float(570, -1))), Float(400, -1))))

RTM_m_inf == Div(RTM_alpha_m, Add(RTM_alpha_m, RTM_beta_m))
RTM_w_inf ==
    Div(Float(1, 0),
        Add(Float(1, 0),
            Exp(Div(Mul(Float(-1, 0), Add(_V_m, Float(350, -1))), Float(100, -1)))))
RTM_tau_w ==
    Div(Float(400, 0),
        Add(Mul(Float(33, -1), Exp(Div(Add(_V_m, Float(350, -1)), Float(200, -1)))),
            Exp(Div(Mul(Float(-1, 0), Add(_V_m, Float(350, -1))), Float(200, -1)))))

RTM_I_K == Mul(Mul(_g_K, Pow(_n, 4)), Sub(_V_m, _E_K))
RTM_I_Na == Mul(Mul(Mul(_g_Na, Pow(RTM_m_inf, 3)), _h), Sub(_V_m, _E_Na))
RTM_I_L == Mul(_g_L, Sub(_V_m, _E_L))
RTM_I_M == Mul(Mul(_g_M, _w), Sub(_V_m, _E_K))

RTM_dv_dt ==
    Div(Sub(Sub(Sub(Sub(_I_A, RTM_I_K), RTM_I_Na), RTM_I_L), RTM_I_M), _C_m)
RTM_dn_dt ==
    Sub(Mul(RTM_alpha_n, Sub(Float(10, -1), _n)), Mul(RTM_beta_n, _n))
RTM_dh_dt ==
    Sub(Mul(RTM_alpha_h, Sub(Float(10, -1), _h)), Mul(RTM_beta_h, _h))
RTM_dw_dt == Div(Sub(RTM_w_inf, _w), RTM_tau_w)

(***************************************************************************)
(* State                                                                   *)
(***************************************************************************)
VARIABLES
    dicts,        \* heap of Python dicts: address -> (symbol name -> float)
    descriptors,  \* the Model Descriptors the builders have returned, in call order
    written,      \* indices of the descriptors whose constants a caller wrote through
    nWrites,      \* number of caller writes so far
    arrays,       \* heap of 1-D numpy arrays: address -> sequence of floats
    nextAddr,     \* next fresh array address
    pc,           \* position of the running compute() call, "idle" between calls
    frame,        \* locals of the running compute() call
    lastEval,     \* the latest call of compute_derivatives
    results,      \* what the compute() calls handed back, in call order
    nMutations    \* number of caller writes into returned arrays so far

modelVars == <<dicts, descriptors, written, nWrites>>
computeVars == <<arrays, nextAddr, pc, frame, lastEval, results, nMutations>>
vars == <<dicts, descriptors, written, nWrites,
          arrays, nextAddr, pc, frame, lastEval, results, nMutations>>

Range(f) == {f[i] : i \in DOMAIN f}

(***************************************************************************)
(* Model Descriptors: NM_model and the two builders                        *)
(***************************************************************************)
MaxDescriptors == 3
MaxWrites == 2
WriteKeys == {"g_K", "g_M"}
WriteValues == {F(10, 0), F(20, 0)}

\* Addresses of the module-level dicts HH_consts and RTM_consts.
HH_consts_addr == 1
RTM_consts_addr == 2

\* neuro_models.util.NM_model: the record of its arguments. dict_syms is the
\* address of the dict passed, kept as passed (HH_RTM_M.py copies it itself
\* before the call, HH.py does not).
NM_model(name_in, model_naming_in, model_expr_in, lst_vars_in, dict_syms, stim_in, dict_units, steady_in) ==
    [name |-> name_in,
     derivative_names |-> model_naming_in,
     derivative_expressions |-> model_expr_in,
     state_symbols |-> lst_vars_in,
     constants |-> dict_syms,
     stimulus_symbol |-> stim_in,
     units |-> dict_units,
     steady_state |-> steady_in]

HH_steady_in ==
    NdArray(<<F(-650, -1), F(52934, -6), F(596111, -6), F(317681, -6)>>)

\* HH.py, get_model_HH()
get_model_HH ==
    /\ Len(descriptors) < MaxDescriptors
    /\ descriptors' = Append(descriptors,
          NM_model("Hodgkin-Huxley model",
                   <<"voltage / dt", "K gate rate / dt", "Na gate rate / dt",
                     "leak gate rate / dt">>,
                   <<HH_dv_dt, HH_dn_dt, HH_dm_dt, HH_dh_dt>>,
                   <<_V_m, _n, _m, _h>>,
                   HH_consts_addr,
                   PyTuple(_I_A, None),
                   None,
                   HH_steady_in))
    /\ UNCHANGED <<dicts, written, nWrites>>
    /\ UNCHANGED computeVars

\* copy.deepcopy of a dict of floats: a new dict object with the same items.
deepcopy(addr) == Append(dicts, dicts[addr])

\* HH_RTM_M.py, get_model(); steady_in is not passed.
get_model ==
    /\ Len(descriptors) < MaxDescriptors
    /\ dicts' = deepcopy(RTM_consts_addr)
    /\ descriptors' = Append(descriptors,
          NM_model("Reduced Traub-Miles Model with M-current",
                   <<"voltage / dt", "K current / dt", "leak current / dt">>,
                   <<RTM_dv_dt, RTM_dn_dt, RTM_dh_dt, RTM_dw_dt>>,
                   <<_V_m, _n, _h, _w>>,
                   Len(dicts) + 1,
                   _I_A,
                   None,
                   None))
    /\ UNCHANGED <<written, nWrites>>
    /\ UNCHANGED computeVars

\* dict.__setitem__
SetItem(d, k, v) == [x \in DOMAIN d \cup {k} |-> IF x = k THEN v ELSE d[x]]

\* A caller writes descriptor.constants[k] = v on a descriptor it was returned.
SetConstant(i, k, v) ==
    /\ nWrites < MaxWrites
    /\ i \in 1..Len(descriptors)
    /\ dicts' = [dicts EXCEPT ![descriptors[i].constants] = SetItem(@, k, v)]
    /\ written' = written \cup {i}
    /\ nWrites' = nWrites + 1
    /\ UNCHANGED descriptors
    /\ UNCHANGED computeVars

NextModels ==
    \/ get_model_HH
    \/ get_model
    \/ \E i \in 1..MaxDescriptors, k \in WriteKeys, v \in WriteValues :
          SetConstant(i, k, v)

(***************************************************************************)
(* standalone/HH_erisir.py: constants and rate functions                   *)
(***************************************************************************)
gK == F(2240, -1)
gNa == F(1120, -1)
gL == F(5, -1)
Cm == F(10, -1)
E_K == F(-900, -1)
E_Na == F(600, -1)
E_L == F(-700, -1)
tmin == 0
dt == F(1, -2)

\* tmax, in steps of dt: the script's 1150 ms are 115000 steps.
TmaxTicks == 2
tmax == FMul(FromInt(TmaxTicks), dt)

alpha_n(Vm) ==
    LET anv == F(950, -1)
    IN  FDiv(FSub(anv, Vm),
             FSub(FExp(FDiv(FSub(anv, Vm), F(118, -1))), FOne))

beta_n(Vm) == FMul(F(25, -3), FExp(FDiv(FNeg(Vm), F(22222, -3))))

alpha_m(Vm) ==
    LET amv == F(755, -1)
    IN  FDiv(FMul(F(40, 0), FSub(amv, Vm)),
             FSub(FExp(FDiv(FSub(amv, Vm), F(135, -1))), FOne))

beta_m(Vm) == FMul(F(12262, -4), FExp(FDiv(FNeg(Vm), F(42248, -3))))

alpha_h(Vm) == FMul(F(35, -4), FExp(FDiv(FNeg(Vm), F(24186, -3))))

beta_h(Vm) ==
    FDiv(FMul(F(-17, -3), FAdd(Vm, F(5125, -2))),
         FSub(FExp(FDiv(FNeg(FAdd(Vm, F(5125, -2))), F(52, -1))), FOne))

n_inf(Vm) == FDiv(alpha_n(Vm), FAdd(alpha_n(Vm), beta_n(Vm)))
m_inf(Vm) == FDiv(alpha_m(Vm), FAdd(alpha_m(Vm), beta_m(Vm)))
h_inf(Vm) == FDiv(alpha_h(Vm), FAdd(alpha_h(Vm), beta_h(Vm)))

(***************************************************************************)
(* numpy arrays: [shape, data], data the flat buffer                       *)
(***************************************************************************)
Array1(xs) == [shape |-> <<Len(xs)>>, data |-> xs]

RECURSIVE Flatten(_)
Flatten(rows) == IF rows = <<>> THEN <<>> ELSE Head(rows) \o Flatten(Tail(rows))

Array2(rows, ncols) == [shape |-> <<Len(rows), ncols>>, data |-> Flatten(rows)]

Alloc(arrs, a, val) == [x \in DOMAIN arrs \cup {a} |-> IF x = a THEN val ELSE arrs[x]]
Free(arrs, as) == [x \in DOMAIN arrs \ as |-> arrs[x]]

\* np.zeros((k,))
zeros(k) == [i \in 1..k |-> FZero]

\* np.linspace(start, stop, num), num >= 2
linspace(start, stop, num) ==
    [i \in 1..num |->
        FAdd(start, FDiv(FMul(FromInt(i - 1), FSub(stop, start)), FromInt(num - 1)))]

\* a // b for floats with a whole-number quotient below 10^9
FloorDiv(a, b) == FTrunc(FDiv(a, b))

\* The default arguments of compute(), created once when the def statement runs.
IC_default == <<F(-6983, -2), FZero, FZero>>
T_default == linspace(FromInt(tmin), tmax, FloorDiv(FSub(tmax, FromInt(tmin)), dt))
IC_default_addr == 1
T_default_addr == 2

(***************************************************************************)
(* Callers' inputs                                                         *)
(***************************************************************************)
StimKinds == {"zero", "pulse"}

\* The stimulus functions callers pass: no current, or 10 uA/cm^2 until t = dt.
stim(kind, t) ==
    IF kind = "pulse" /\ FLt(t, dt) THEN F(10, 0) ELSE FZero

ICSel == {"default", "three", "short", "long"}
ICValue(sel) ==
    CASE sel = "three" -> <<F(-65, 0), FZero, F(9, -1)>>
      [] sel = "short" -> <<F(-65, 0), FZero>>
      [] sel = "long" -> <<F(-65, 0), FZero, F(9, -1), F(5, -1)>>
      [] OTHER -> IC_default

TSel == {"default", "single", "far"}
TValue(sel) ==
    CASE sel = "single" -> <<FZero>>
      [] sel = "far" -> <<FZero, F(5, -2)>>
      [] OTHER -> T_default

\* The calls made: all arguments but at most one as in the plainest call, the zero
\* stimulus with the default initial state and the default time points.
CallCases ==
    {c \in StimKinds \X ICSel \X TSel :
        Cardinality({i \in 1..3 : c[i] # <<"zero", "default", "default">>[i]}) <= 1}

MaxCalls == 2
MaxMutations == 1
MutValues == {F(1, -2)}

(***************************************************************************)
(* standalone/HH_erisir.py: compute()                                      *)
(***************************************************************************)
NoFrame ==
    [stim |-> "zero", icSel |-> "default", tSel |-> "default", IC |-> 0, T |-> 0,
     ICval |-> <<>>, Treq |-> <<>>, yAddr |-> 0, dyAddr |-> 0, t |-> FZero,
     row |-> 0, steps |-> 0, Vy |-> <<>>, nEvals |-> 0, converged |-> TRUE]

NoEval ==
    [outcome |-> "none", yAddr |-> 0, yBefore |-> <<>>, t0 |-> FZero,
     stimArgs |-> <<>>, dyAddr |-> 0, liveBefore |-> {}]

\* The solver's own step and its budget of steps per output interval (odeint's
\* mxstep, 500 by default): the adaptive LSODA stepping is modelled as explicit Euler
\* steps of at most h0, and an output time further than MxStep steps away is the
\* "excess work" failure.
h0 == dt
MxStep == 2
Garbage == {FZero, F(1, 0)}

\* What compute() hands back: a returned (T, Vy) or the exception it let through.
Returned(fr, vyAddr, vy) ==
    [kind |-> "return", exc |-> "", stim |-> fr.stim, icSel |-> fr.icSel,
     tSel |-> fr.tSel, ICval |-> fr.ICval, Treq |-> fr.Treq, T |-> fr.T,
     Tval |-> arrays[fr.T].data, Vy |-> vyAddr, Vyval |-> vy,
     converged |-> fr.converged, nEvals |-> fr.nEvals]

Raised(fr, e) ==
    [kind |-> "raise", exc |-> e, stim |-> fr.stim, icSel |-> fr.icSel,
     tSel |-> fr.tSel, ICval |-> fr.ICval, Treq |-> fr.Treq, T |-> 0,
     Tval |-> <<>>, Vy |-> 0, Vyval |-> <<>>,
     converged |-> fr.converged, nEvals |-> fr.nEvals]

\* compute_derivatives, lines 109-123: the derivative vector from Vm, n, h and the
\* stimulus value I = stim(t0). The rate functions of Vm are evaluated first, as the
\* one element of a set (TLC evaluates LET definitions where they are first used,
\* which would nest the whole chain of float operations as deep as it is long).
dy_of(Vm, n, h, I) ==
    CHOOSE dy \in
        {LET GK == FMul(FDiv(gK, Cm), FPowN(n, 2))
             GL == FDiv(gL, Cm)
         IN  <<FSub(FSub(FSub(FDiv(I, Cm), FMul(GK, FSub(Vm, E_K))),
                         FMul(FMul(FMul(FDiv(gNa, Cm), FPowN(rates[1], 3)), h),
                              FSub(Vm, E_Na))),
                    FMul(GL, FSub(Vm, E_L))),
               FSub(FMul(rates[2], FSub(FOne, n)), FMul(rates[3], n)),
               FSub(FMul(rates[4], FSub(FOne, h)), FMul(rates[5], h))>> :
         rates \in {<<m_inf(Vm), alpha_n(Vm), beta_n(Vm), alpha_h(Vm), beta_h(Vm)>>}} :
        TRUE

\* compute_derivatives with y[1] and y[2] read the other way round.
dy_values_swapped(y, I) == dy_of(y[1], y[3], y[2], I)

\* compute_derivatives, lines 104-106: Vm = y[0], n = y[1], h = y[2] (y of at least
\* three entries).
dy_values(y, I) == dy_of(y[1], y[2], y[3], I)

\* The time compute_derivatives evaluates the stimulus at: stim(t0).
stim_time(t0) == t0

\* odeint starting with no row for the initial state.
first_rows_none(y0) == <<>>

\* The rows odeint has when it starts: the initial state, as row 0.
first_rows(y0) == <<y0>>

\* Arrays that belong to the running call only: the solver's state buffer, the last
\* derivative vector, and argument arrays the caller built for this call.
CallTemps(fr) ==
    {fr.yAddr, fr.dyAddr} \cup (IF fr.icSel = "default" THEN {} ELSE {fr.IC})

\* A caller calls compute(stim, IC, T) (IC and T given or left to their defaults);
\* the call runs up to odeint's first call of compute_derivatives.
Compute(st, icSel, tSel) ==
    /\ pc = "idle"
    /\ Len(results) < MaxCalls
    /\ LET icAddr == IF icSel = "default" THEN IC_default_addr ELSE nextAddr
           tAddr == IF tSel = "default" THEN T_default_addr ELSE nextAddr + 1
           yAddr == nextAddr + 2
           a1 == IF icSel = "default" THEN arrays
                 ELSE Alloc(arrays, icAddr, Array1(ICValue(icSel)))
           a2 == IF tSel = "default" THEN a1
                 ELSE Alloc(a1, tAddr, Array1(TValue(tSel)))
           y0 == a2[icAddr].data
           Tv == a2[tAddr].data
       IN  /\ arrays' = Alloc(a2, yAddr, Array1(y0))
           /\ nextAddr' = nextAddr + 3
           /\ frame' = [NoFrame EXCEPT !.stim = st, !.icSel = icSel, !.tSel = tSel,
                                       !.IC = icAddr, !.T = tAddr, !.ICval = y0,
                                       !.Treq = Tv, !.yAddr = yAddr, !.t = Tv[1],
                                       !.row = 2, !.Vy = first_rows(y0)]
           /\ pc' = IF Len(Tv) = 1 THEN "after_odeint" ELSE "call_func"
    /\ UNCHANGED <<lastEval, results, nMutations>>
    /\ UNCHANGED modelVars

\* odeint calls compute_derivatives(y, t0). With fewer than three entries in y the
\* reads y[1], y[2] raise IndexError, which odeint and compute() let through.
compute_derivatives ==
    /\ pc = "call_func"
    /\ LET y == arrays[frame.yAddr].data
           dyAddr == nextAddr
           withDy == Alloc(arrays, dyAddr, Array1(zeros(3)))
           ev == [outcome |-> "return", yAddr |-> frame.yAddr, yBefore |-> y,
                  t0 |-> frame.t, stimArgs |-> <<>>, dyAddr |-> dyAddr,
                  liveBefore |-> DOMAIN arrays]
           fr == [frame EXCEPT !.nEvals = @ + 1, !.dyAddr = dyAddr]
       IN  /\ nextAddr' = nextAddr + 1
           /\ IF Len(y) < 3
              THEN /\ lastEval' = [ev EXCEPT !.outcome = "IndexError"]
                   /\ arrays' = Free(withDy, CallTemps(fr))
                   /\ results' = Append(results, Raised(fr, "IndexError"))
                   /\ frame' = NoFrame
                   /\ pc' = "idle"
              ELSE /\ lastEval' = [ev EXCEPT !.stimArgs = <<stim_time(frame.t)>>]
                   /\ arrays' = [withDy EXCEPT ![dyAddr].data =
                                    dy_values(y, stim(frame.stim, stim_time(frame.t)))]
                   /\ frame' = fr
                   /\ pc' = "got_dy"
                   /\ UNCHANGED results
    /\ UNCHANGED nMutations
    /\ UNCHANGED modelVars

\* y + hstep * dy
euler(y, dy, hstep) == [i \in 1..Len(y) |-> FAdd(y[i], FMul(hstep, dy[i]))]

\* odeint takes the derivative it was returned: it refuses a vector whose size is
\* not len(y0) (RuntimeError); otherwise it advances y, stores y as the next row
\* when the output time is reached, and gives up on the interval when the step
\* budget is spent, leaving the rows it did not reach as they were allocated.
odeint_step ==
    /\ pc = "got_dy"
    /\ LET y == arrays[frame.yAddr].data
           dy == arrays[frame.dyAddr].data
           Tv == arrays[frame.T].data
           tout == Tv[frame.row]
           left == FSub(tout, frame.t)
           last == FLe(left, h0)
           hstep == IF last THEN left ELSE h0
           y1 == euler(y, dy, hstep)
           t1 == IF last THEN tout ELSE FAdd(frame.t, hstep)
           freed == Free(arrays, {frame.dyAddr})
       IN  IF Len(dy) # Len(y)
           THEN /\ arrays' = Free(arrays, CallTemps(frame))
                /\ results' = Append(results, Raised(frame, "RuntimeError"))
                /\ frame' = NoFrame
                /\ pc' = "idle"
           ELSE /\ UNCHANGED results
                /\ arrays' = [freed EXCEPT ![frame.yAddr].data = y1]
                /\ IF last
                   THEN /\ frame' = [frame EXCEPT !.t = t1, !.steps = 0, !.dyAddr = 0,
                                                  !.row = @ + 1, !.Vy = Append(@, y1)]
                        /\ pc' = IF frame.row = Len(Tv) THEN "after_odeint"
                                 ELSE "call_func"
                   ELSE IF frame.steps + 1 >= MxStep
                   THEN \E g \in Garbage :
                        /\ frame' = [frame EXCEPT !.t = t1, !.dyAddr = 0,
                              !.steps = @ + 1, !.converged = FALSE,
                              !.Vy = @ \o [r \in 1..(Len(Tv) - frame.row + 1) |->
                                              [i \in 1..Len(y) |-> g]]]
                        /\ pc' = "after_odeint"
                   ELSE /\ frame' = [frame EXCEPT !.t = t1, !.steps = @ + 1,
                                                  !.dyAddr = 0]
                        /\ pc' = "call_func"
    /\ UNCHANGED <<nextAddr, lastEval, nMutations>>
    /\ UNCHANGED modelVars

\* After odeint: the plot branch reads stim(t) for t in T and Vy, then
\* return (T, Vy): T is the argument object itself, Vy odeint's new array.
compute_return ==
    /\ pc = "after_odeint"
    /\ LET vyAddr == nextAddr
           Idv == [i \in 1..Len(arrays[frame.T].data) |->
                      stim(frame.stim, arrays[frame.T].data[i])]
           kept == Free(arrays, CallTemps(frame))
       IN  /\ Len(Idv) = Len(arrays[frame.T].data)
           /\ arrays' = Alloc(kept, vyAddr, Array2(frame.Vy, Len(frame.ICval)))
           /\ results' = Append(results, Returned(frame, vyAddr, frame.Vy))
    /\ nextAddr' = nextAddr + 1
    /\ frame' = NoFrame
    /\ pc' = "idle"
    /\ UNCHANGED <<lastEval, nMutations>>
    /\ UNCHANGED modelVars

\* A caller writes into an array a call returned: element 0 of T or of Vy.
MutateReturned(i, which, v) ==
    /\ pc = "idle"
    /\ nMutations < MaxMutations
    /\ i \in 1..Len(results)
    /\ results[i].kind = "return"
    /\ LET a == IF which = "T" THEN results[i].T ELSE results[i].Vy
       IN  /\ a \in DOMAIN arrays
           /\ arrays' = [arrays EXCEPT ![a].data[1] = v]
    /\ nMutations' = nMutations + 1
    /\ UNCHANGED <<nextAddr, pc, frame, lastEval, results>>
    /\ UNCHANGED modelVars

NextCompute ==
    \/ \E c \in CallCases : Compute(c[1], c[2], c[3])
    \/ compute_derivatives
    \/ odeint_step
    \/ compute_return
    \/ \E i \in 1..MaxCalls, which \in {"T", "Vy"}, v \in MutValues :
          MutateReturned(i, which, v)

(***************************************************************************)
(* Specifications                                                          *)
(***************************************************************************)
Init ==
    /\ dicts = <<HH_consts, RTM_consts>>
    /\ descriptors = <<>>
    /\ written = {}
    /\ nWrites = 0
    /\ arrays = [a \in {IC_default_addr, T_default_addr} |->
                    IF a = IC_default_addr THEN Array1(IC_default)
                    ELSE Array1(T_default)]
    /\ nextAddr = 3
    /\ pc = "idle"
    /\ frame = NoFrame
    /\ lastEval = NoEval
    /\ results = <<>>
    /\ nMutations = 0

\* The model builders and their callers.
SpecModels == Init /\ [][NextModels]_vars

\* The stand-alone simulation and its callers.
SpecCompute == Init /\ [][NextCompute]_vars

(***************************************************************************)
(* Properties of the Model Descriptors                                     *)
(***************************************************************************)
Descs == 1..Len(descriptors)
SymbolNames(syms) == {syms[i][2] : i \in DOMAIN syms}
IsHH(d) == d.name = "Hodgkin-Huxley model"
IsRTM(d) == d.name = "Reduced Traub-Miles Model with M-current"

\* C1: every descriptor a builder returned has as many derivative names as
\* derivative expressions and as state symbols.
C1_LengthsEqual ==
    \A i \in Descs :
        /\ Len(descriptors[i].derivative_names) = Len(descriptors[i].derivative_expressions)
        /\ Len(descriptors[i].derivative_expressions) = Len(descriptors[i].state_symbols)

\* C2: in every descriptor built, each symbol free in a derivative expression,
\* the applied current I_A apart, is a state symbol or a key of the descriptor's
\* constants.
C2_FreeSymbolsResolved ==
    \A i \in Descs :
        \A j \in DOMAIN descriptors[i].derivative_expressions :
            free_symbols(descriptors[i].derivative_expressions[j]) \ {_I_A[2]}
                \subseteq SymbolNames(descriptors[i].state_symbols)
                          \cup DOMAIN dicts[descriptors[i].constants]

\* Both models built, and a caller has written a constant.
C2_Witness ==
    /\ \E i \in Descs : IsHH(descriptors[i])
    /\ \E i \in Descs : IsRTM(descriptors[i])
    /\ nWrites > 0

\* C3: writes through one descriptor's constants leave the module-level default
\* constants and the constants of every descriptor not written through as built.
C3_NoSharedConstants ==
    /\ dicts[HH_consts_addr] = HH_consts
    /\ dicts[RTM_consts_addr] = RTM_consts
    /\ \A i \in Descs :
          i \notin written =>
              dicts[descriptors[i].constants] =
                  IF IsHH(descriptors[i]) THEN HH_consts ELSE RTM_consts

\* The substitution of a descriptor's constants, its steady_state for the state
\* symbols (in state_symbols order) and zero for the stimulus.
SteadyEnv(d) ==
    LET consts == dicts[d.constants]
        states == SymbolNames(d.state_symbols)
    IN  [k \in DOMAIN consts \cup states \cup {_I_A[2]} |->
            IF k \in states
            THEN d.steady_state[2][CHOOSE j \in DOMAIN d.state_symbols :
                                      d.state_symbols[j][2] = k]
            ELSE IF k = _I_A[2] THEN FZero ELSE consts[k]]

Tolerance == F(1, -3)

\* C4: a declared steady_state has the length of state_symbols, and with the default
\* constants and zero stimulus every derivative expression evaluates there to
\* within 1e-3 of zero.
C4_SteadyStateIsFixedPoint ==
    \A i \in Descs :
        (~IsNone(descriptors[i].steady_state) /\ nWrites = 0) =>
            /\ Len(descriptors[i].steady_state[2]) = Len(descriptors[i].state_symbols)
            /\ \A j \in DOMAIN descriptors[i].derivative_expressions :
                  FLe(FAbs(evalf(descriptors[i].derivative_expressions[j],
                                 SteadyEnv(descriptors[i]))),
                      Tolerance)

\* C10: the stimulus slot of every descriptor built is a Symbol or None, and a
\* Symbol there is free in derivative_expressions[0] and in no other expression.
C10_StimulusSlot ==
    \A i \in Descs :
        LET slot == descriptors[i].stimulus_symbol
            exprs == descriptors[i].derivative_expressions
        IN  /\ IsNone(slot) \/ IsSymbol(slot)
            /\ IsSymbol(slot) =>
                  /\ slot[2] \in free_symbols(exprs[1])
                  /\ \A j \in 2..Len(exprs) : slot[2] \notin free_symbols(exprs[j])

(***************************************************************************)
(* Properties of compute()                                                 *)
(***************************************************************************)
Calls == 1..Len(results)
StateDim == 3

StrictlyIncreasing(T) == \A i \in 1..(Len(T) - 1) : FLt(T[i], T[i + 1])

\* A call that returned a trajectory the solver converged on.
Succeeded(r) == r.kind = "return" /\ r.converged

\* C5: a successful integration from an initial state of three entries over a
\* strictly increasing grid of at least one point returns the grid it was given and
\* one row per grid point, each of three entries, the first row the initial state.
C5_TrajectoryShape ==
    \A c \in Calls :
        (/\ Succeeded(results[c])
         /\ Len(results[c].ICval) = StateDim
         /\ Len(results[c].Treq) >= 1
         /\ StrictlyIncreasing(results[c].Treq)) =>
            /\ results[c].Tval = results[c].Treq
            /\ Len(results[c].Vyval) = Len(results[c].Treq)
            /\ \A k \in DOMAIN results[c].Vyval :
                  Len(results[c].Vyval[k]) = Len(results[c].ICval)
            /\ results[c].Vyval[1] = results[c].ICval

\* A successful call over two or more time points has returned.
C5_Witness ==
    \E c \in Calls :
        /\ Succeeded(results[c])
        /\ Len(results[c].ICval) = StateDim
        /\ Len(results[c].Treq) >= 2
        /\ StrictlyIncreasing(results[c].Treq)

\* C6: a call whose solver did not converge raises IntegrationError and returns
\* no trajectory.
C6_AllOrNothing ==
    \A c \in Calls :
        ~results[c].converged =>
            results[c].kind = "raise" /\ results[c].exc = "IntegrationError"

\* C7: a call whose initial state does not have three entries raises
\* DimensionMismatchError before compute_derivatives is ever called.
C7_DimensionChecked ==
    \A c \in Calls :
        Len(results[c].ICval) # StateDim =>
            /\ results[c].kind = "raise"
            /\ results[c].exc = "DimensionMismatchError"
            /\ results[c].nEvals = 0

\* C8: two successful calls with the same arguments (the same stimulus, the same
\* initial state or both the default, the same time points or both the default)
\* return the same time grid and the same trajectory.
C8_CallsIndependent ==
    \A c1 \in Calls, c2 \in Calls :
        (/\ Succeeded(results[c1]) /\ Succeeded(results[c2])
         /\ results[c1].stim = results[c2].stim
         /\ results[c1].icSel = results[c2].icSel
         /\ results[c1].tSel = results[c2].tSel) =>
            /\ results[c1].Tval = results[c2].Tval
            /\ results[c1].Vyval = results[c2].Vyval

\* x is at most nine tenths of the target / at least eleven tenths of it.
Below(x, target) == FLe(x, FMul(F(9, -1), target))
Above(x, target) == FLe(FMul(F(11, -1), target), x)

====
